---- MODULE Spec2Model ----
(***************************************************************************)
(* PDF annotation viewer (etaubman/annotations, frontend/app/scripts).     *)
(*                                                                         *)
(* The model follows the modular front end: state.js (the shared state     *)
(* object), pdfRenderer.js (renderPage, queueRenderPage,                   *)
(* handleWindowResize), controls.js (the toolbar handlers and the pointer  *)
(* handlers of the overlay), modal.js (the annotation prompt),             *)
(* documentManager.js (loadDocument) and annotationManager.js              *)
(* (fetchAnnotations, the annotation list, drawAnnotations).               *)
(*                                                                         *)
(* Spec is the viewer from page load: documents, navigation, zoom and the  *)
(* render scheduler. DrawSpec is the annotation controller on a document   *)
(* that is on screen: drags, the prompt, saves and the refresh after them. *)
(* ViewSpec is the viewer of Spec started with a document on screen at one *)
(* of several zoom levels; ToggleSpec and ResizeSpec are that viewer when  *)
(* the user only clicks show-annotations, or only resizes the window.      *)
(* AnnotateSpec is the annotation controller together with the page        *)
(* buttons and the document list; PointerSpec is its part with drags and   *)
(* page changes only. ReloadSpec is the viewer while a second document is  *)
(* being loaded.                                                           *)
(*                                                                         *)
(* JavaScript runs one handler at a time, so every action below is one     *)
(* whole handler (a click handler, a promise callback, a timer callback).  *)
(* The raster engine (pdf.js) and the backend are the environment: a       *)
(* getPage, a render task, a document load and an annotation fetch each    *)
(* complete in a later step, in any order, with success or failure.        *)
(*                                                                         *)
(* Units: state.scale moves in steps of 0.25, so scale is kept in quarters *)
(* (scale = 4 is 1.0); viewport and layout sizes are kept in quarter       *)
(* pixels, pixel-buffer sizes in whole pixels.                             *)
(***************************************************************************)
EXTENDS Integers, Sequences, FiniteSets, TLC

(***************************************************************************)
(* Bounds of the model                                                     *)
(***************************************************************************)
\* number of user events (clicks, resize events) in one behaviour
MaxEvents == 2
\* renderPage calls that reach getPage in one behaviour
MaxRequests == 3

(***************************************************************************)
(* Program constants (state.js), in quarters                               *)
(***************************************************************************)
minScale == 2
maxScale == 12
\* loadDocument resets the zoom to 1.0
defaultScale == 4
\* the zoom buttons move the scale by 0.25
scaleStep == 1

(***************************************************************************)
(* The environment: documents, pages, the backend's annotations            *)
(***************************************************************************)
\* the documents of the document list
Docs == {1, 2}

\* pdfDoc.numPages: document 1 has two pages, document 2 has one
numPages(d) == IF d = 1 THEN 2 ELSE 1

\* page.rotate of page p: even pages are stored rotated by a quarter turn
pageRotate(p) == IF p % 2 = 0 THEN 90 ELSE 0

\* unscaled, unrotated page size in pixels
pageSize == [width |-> 60, height |-> 90]

\* window.devicePixelRatio values
DevicePixelRatios == {1, 2}

\* GET /annotations/{document_id}: one annotation on the last page of d
backendAnnotations(d) ==
    { [id |-> d, document_id |-> d, page |-> numPages(d),
       x |-> 10, y |-> 10, width |-> 50, height |-> 30, value |-> "label"] }

\* what the backend stores when the page is opened
initialBackend == UNION { backendAnnotations(d) : d \in Docs }

VARIABLES
    pdfDoc,              \* state.pdfDoc: 0 is null, else the loaded document
    pageNum,             \* state.pageNum
    scale,               \* state.scale, in quarters
    pageIsRendering,     \* state.pageIsRendering
    pageNumIsPending,    \* state.pageNumIsPending: 0 is null
    currentRenderTask,   \* state.currentRenderTask: 0 is null, else index in reqs
    isAnnotationMode,    \* state.isAnnotationMode
    showAnnotations,     \* state.showAnnotations
    showAnnotationsButtonDisabled, \* show-annotations-button.disabled
    documentId,          \* state.documentId: 0 is null
    annotations,         \* state.annotations
    canvas,              \* state.canvas: width, height, style.width, style.height
    annotationCanvas,    \* state.annotationCanvas, same fields
    devicePixelRatio,    \* window.devicePixelRatio
    reqs,                \* every renderPage call that reached getPage, in call order
    loads,               \* pdfjsLib.getDocument promises in flight (document ids)
    fetches,             \* annotation fetches in flight (document ids)
    resizeTimeout,       \* armed debounce timers of the resize listener
    alerts,              \* how often each alert() message was shown
    raster,              \* what the last completed raster task painted
    overlay,             \* what the last drawAnnotations call painted
    events,              \* number of user events so far
    isDrawing,           \* state.isDrawing
    startX,              \* state.startX, in document units
    startY,              \* state.startY, in document units
    liveRect,            \* the rectangle mousemove stroked on the overlay, or << >>
    modal,               \* the annotation prompt (modal.js)
    posts,               \* POST /annotations/ requests in flight
    backend              \* the annotations the backend stores

vars == << pdfDoc, pageNum, scale, pageIsRendering, pageNumIsPending,
           currentRenderTask, isAnnotationMode, showAnnotations,
           showAnnotationsButtonDisabled, documentId, annotations, canvas,
           annotationCanvas, devicePixelRatio, reqs, loads, fetches,
           resizeTimeout, alerts, raster, overlay, events, isDrawing, startX,
           startY, liveRect, modal, posts, backend >>

\* the variables no handler of the render scheduler touches
uiVars == << isAnnotationMode, showAnnotations, showAnnotationsButtonDisabled >>

\* the drag state, the prompt, the saves in flight and the backend's store:
\* the variables only the pointer handlers and their continuations touch
controllerVars == << isDrawing, startX, startY, modal, posts, backend >>

\* GET /annotations/{document_id} answered with the stored annotations of d
stored(d) == { a \in backend : a.document_id = d }

\* no prompt on screen
closedModal ==
    [open |-> FALSE, fetch |-> "none", options |-> << >>, value |-> "",
     x |-> 0, y |-> 0, width |-> 0, height |-> 0, scale |-> 0, shown |-> 0]

\* the body of an error response (a JSON object such as {"detail": ...}),
\* which is not an array: it has no length, no forEach and no filter
errorBody ==
    { [id |-> 0, document_id |-> 0, page |-> 0, x |-> 0, y |-> 0,
       width |-> 0, height |-> 0, value |-> "detail"] }

\* Array.isArray(a)
isArray(a) == a # errorBody

(***************************************************************************)
(* Canvases                                                                *)
(***************************************************************************)
\* a <canvas> element before any script sized it: 300 x 150, no inline style,
\* the identity as its context's transform
defaultCanvas ==
    [width |-> 300, height |-> 150, styleWidth |-> 0, styleHeight |-> 0,
     transform |-> 1]

\* page.getViewport({scale, rotation}): quarter pixels; a quarter turn swaps
\* width and height
getViewport(sc, rotation) ==
    IF rotation \in {90, 270}
    THEN [width |-> pageSize.height * sc, height |-> pageSize.width * sc]
    ELSE [width |-> pageSize.width * sc, height |-> pageSize.height * sc]

\* const devicePixelRatio = window.devicePixelRatio || 1
effectiveDpr(dpr) == IF dpr = 0 THEN 1 ELSE dpr

\* canvas.width is an integer attribute: assigning a fraction truncates it
\* (v is in quarter pixels)
toCanvasLength(v) == v \div 4

\* renderPage lines 26-30: the raster canvas and the transform of its context
sizeCanvas(viewport, dpr) ==
    [width       |-> toCanvasLength(viewport.width * dpr),
     height      |-> toCanvasLength(viewport.height * dpr),
     styleWidth  |-> viewport.width,
     styleHeight |-> viewport.height,
     transform   |-> dpr]

\* a sizing of the overlay that forgets the device pixel ratio
sizeAnnotationCanvasNoDpr(viewport, dpr) ==
    [width       |-> toCanvasLength(viewport.width),
     height      |-> toCanvasLength(viewport.height),
     styleWidth  |-> viewport.width,
     styleHeight |-> viewport.height,
     transform   |-> dpr]

\* renderPage lines 33-37: the overlay canvas and the transform of its context
sizeAnnotationCanvas(viewport, dpr) ==
    [width       |-> toCanvasLength(viewport.width * dpr),
     height      |-> toCanvasLength(viewport.height * dpr),
     styleWidth  |-> viewport.width,
     styleHeight |-> viewport.height,
     transform   |-> dpr]

\* nothing painted
blank == [page |-> 0, scale |-> 0, ids |-> {}, rects |-> {}]

\* the rectangle of annotation ann in a pixel buffer whose context was left
\* with the identity transform
annotationRectUntransformed(ann, sc, t) ==
    [id     |-> ann.id,
     x      |-> ann.x * sc,
     y      |-> ann.y * sc,
     width  |-> ann.width * sc,
     height |-> ann.height * sc,
     label  |-> ann.value]

\* lines 100-102 and 117: the rectangle and the label of annotation ann,
\* given to the context in CSS pixels (ann.x * state.scale, ...), as the
\* context's transform t lands them in the pixel buffer; quarter pixels
annotationRect(ann, sc, t) ==
    [id     |-> ann.id,
     x      |-> ann.x * sc * t,
     y      |-> ann.y * sc * t,
     width  |-> ann.width * sc * t,
     height |-> ann.height * sc * t,
     label  |-> ann.value]

\* drawAnnotations(num) throws a TypeError at state.annotations.filter,
\* line 96, after it cleared the overlay
drawAnnotationsThrows == showAnnotations /\ ~isArray(annotations)

\* a redraw without the page filter of line 96
drawAnnotationsOfAllPages(num) ==
    IF drawAnnotationsThrows
    THEN blank
    ELSE [page  |-> num,
          scale |-> scale,
          ids   |-> IF showAnnotations
                    THEN { a.id : a \in annotations }
                    ELSE {},
          rects |-> IF showAnnotations
                    THEN { annotationRect(a, scale, annotationCanvas.transform) :
                             a \in annotations }
                    ELSE {}]

\* drawAnnotations(num): the overlay is cleared; unless annotations are
\* hidden, the annotations of page num are drawn at the current scale
drawAnnotations(num) ==
    IF drawAnnotationsThrows
    THEN blank
    ELSE [page  |-> num,
          scale |-> scale,
          ids   |-> IF showAnnotations
                    THEN { a.id : a \in { b \in annotations : b.page = num } }
                    ELSE {},
          rects |-> IF showAnnotations
                    THEN { annotationRect(a, scale, annotationCanvas.transform) :
                             a \in { b \in annotations : b.page = num } }
                    ELSE {}]

(***************************************************************************)
(* renderPage and queueRenderPage (pdfRenderer.js)                         *)
(***************************************************************************)
\* the alert() messages of the handlers modelled here
Messages == { "Failed to render page", "Failed to get page",
              "Failed to load PDF", "Failed to fetch annotations",
              "Annotation too small. Please draw a larger area.",
              "Please select a data element",
              "Annotation saved successfully.",
              "An error occurred while processing the annotation. Please try again." }

\* alert(m)
alert(al, m) == [al EXCEPT ![m] = @ + 1]

\* number of failure alerts of the render scheduler, the document load and
\* the annotation fetch shown
alertCount(al) ==
    al["Failed to render page"] + al["Failed to get page"]
        + al["Failed to load PDF"] + al["Failed to fetch annotations"]

\* the render task's catch handler, lines 57-65: what it adds to the alerts
renderCatch(al, errorName) ==
    IF errorName = "RenderingCancelledException"
    THEN al
    ELSE alert(al, "Failed to render page")

\* a request that is over keeps its outcome only
finished(outcome) ==
    [page |-> 0, doc |-> 0, st |-> outcome, scale |-> 0, queued |-> 0,
     started |-> 0]

\* a task that is in flight: started by page.render and neither succeeded,
\* failed nor cancelled
Running(rs) == { i \in 1..Len(rs) : rs[i].st = "running" }

\* lines 12-14: cancel() the task the state holds; it only acts on a task
\* that is still in flight, whose promise then rejects with
\* RenderingCancelledException
cancelCurrent(rs, cur) ==
    IF cur # 0 /\ rs[cur].st = "running"
    THEN [rs EXCEPT ![cur] = finished("cancelled")]
    ELSE rs

\* the request renderPage(num) adds: the getPage promise of line 18
newRequest(num) ==
    [page |-> num, doc |-> pdfDoc, st |-> "getPage", scale |-> 0,
     queued |-> 0, started |-> 0]

\* renderPage(num) called with task handle cur, requests rs and alerts al.
\* With no document, state.pdfDoc.getPage throws a TypeError out of
\* renderPage (threw), after the cancel and after pageIsRendering = true.
renderPage(num, cur, rs, al) ==
    LET cancelled == cancelCurrent(rs, cur)
        al2 == IF cancelled # rs
               THEN renderCatch(al, "RenderingCancelledException")
               ELSE al
    IN  [reqs   |-> IF pdfDoc = 0 THEN cancelled
                    ELSE Append(cancelled, newRequest(num)),
         alerts |-> al2,
         threw  |-> pdfDoc = 0]

\* history kept for the coalescing property: the last page queued while
\* task i was in flight
noteQueued(rs, num) ==
    [i \in 1..Len(rs) |->
        IF rs[i].st = "running"
        THEN [rs[i] EXCEPT !.queued = num]
        ELSE rs[i]]

\* history kept for the coalescing property: the renders started from the
\* pending page since a page was first queued during task i
noteStarted(rs) ==
    [i \in 1..Len(rs) |->
        IF rs[i].st = "running" /\ rs[i].queued # 0
        THEN [rs[i] EXCEPT !.started = @ + 1]
        ELSE rs[i]]

\* queueRenderPage(num), lines 80-86, as the last call of a handler
QueueRenderPage(num) ==
    IF pageIsRendering
    THEN /\ pageNumIsPending' = num
         /\ reqs' = noteQueued(reqs, num)
         /\ UNCHANGED << pageIsRendering, alerts >>
    ELSE LET r == renderPage(num, currentRenderTask, reqs, alerts)
         IN  /\ pageIsRendering' = TRUE
             /\ reqs' = r.reqs
             /\ alerts' = r.alerts
             /\ UNCHANGED pageNumIsPending

\* renderPage(num) as the last call of a handler
RenderPage(num) ==
    LET r == renderPage(num, currentRenderTask, reqs, alerts)
    IN  /\ pageIsRendering' = TRUE
        /\ reqs' = r.reqs
        /\ alerts' = r.alerts
        /\ UNCHANGED pageNumIsPending

\* a handler that may call renderPage runs only while the model has room for
\* one more request
RoomForRequest == Len(reqs) < MaxRequests

UserEvent ==
    /\ events < MaxEvents
    /\ events' = events + 1

(***************************************************************************)
(* Initial state: state.js, index.html                                     *)
(***************************************************************************)
Init ==
    /\ pdfDoc = 0
    /\ pageNum = 1
    /\ scale = defaultScale
    /\ pageIsRendering = FALSE
    /\ pageNumIsPending = 0
    /\ currentRenderTask = 0
    /\ isAnnotationMode = FALSE
    /\ showAnnotations = TRUE
    /\ showAnnotationsButtonDisabled = FALSE
    /\ documentId = 0
    /\ annotations = {}
    /\ canvas = defaultCanvas
    /\ annotationCanvas = defaultCanvas
    /\ devicePixelRatio \in DevicePixelRatios
    /\ reqs = << >>
    /\ loads = << >>
    /\ fetches = << >>
    /\ resizeTimeout = 0
    /\ alerts = [m \in Messages |-> 0]
    /\ raster = blank
    /\ overlay = blank
    /\ events = 0
    /\ isDrawing = FALSE
    /\ startX = 0
    /\ startY = 0
    /\ liveRect = << >>
    /\ modal = closedModal
    /\ posts = << >>
    /\ backend = initialBackend

(***************************************************************************)
(* Toolbar handlers (controls.js)                                          *)
(***************************************************************************)
\* prev-page-button, lines 15-19
PrevPage ==
    /\ UserEvent
    /\ RoomForRequest
    /\ IF pageNum <= 1
       THEN UNCHANGED << pageNum, pageIsRendering, pageNumIsPending, reqs, alerts >>
       ELSE /\ pageNum' = pageNum - 1
            /\ QueueRenderPage(pageNum - 1)
    /\ UNCHANGED << pdfDoc, scale, currentRenderTask, uiVars, documentId,
                    annotations, canvas, annotationCanvas, devicePixelRatio,
                    loads, fetches, resizeTimeout, raster, overlay >>
    /\ UNCHANGED << controllerVars, liveRect >>

\* next-page-button, lines 22-26; with no document state.pdfDoc.numPages
\* throws before anything is changed
NextPage ==
    /\ UserEvent
    /\ RoomForRequest
    /\ IF pdfDoc = 0 \/ pageNum >= numPages(pdfDoc)
       THEN UNCHANGED << pageNum, pageIsRendering, pageNumIsPending, reqs, alerts >>
       ELSE /\ pageNum' = pageNum + 1
            /\ QueueRenderPage(pageNum + 1)
    /\ UNCHANGED << pdfDoc, scale, currentRenderTask, uiVars, documentId,
                    annotations, canvas, annotationCanvas, devicePixelRatio,
                    loads, fetches, resizeTimeout, raster, overlay >>
    /\ UNCHANGED << controllerVars, liveRect >>

\* the zoom-in handler without the check of its line 30
ZoomInUnclamped ==
    /\ UserEvent
    /\ RoomForRequest
    /\ scale' = scale + scaleStep
    /\ QueueRenderPage(pageNum)
    /\ UNCHANGED << pdfDoc, pageNum, currentRenderTask, uiVars, documentId,
                    annotations, canvas, annotationCanvas, devicePixelRatio,
                    loads, fetches, resizeTimeout, raster, overlay >>
    /\ UNCHANGED << controllerVars, liveRect >>

\* zoom-in-button, lines 29-34
ZoomIn ==
    /\ UserEvent
    /\ RoomForRequest
    /\ IF scale >= maxScale
       THEN UNCHANGED << scale, pageIsRendering, pageNumIsPending, reqs, alerts >>
       ELSE /\ scale' = scale + scaleStep
            /\ QueueRenderPage(pageNum)
    /\ UNCHANGED << pdfDoc, pageNum, currentRenderTask, uiVars, documentId,
                    annotations, canvas, annotationCanvas, devicePixelRatio,
                    loads, fetches, resizeTimeout, raster, overlay >>
    /\ UNCHANGED << controllerVars, liveRect >>

\* zoom-out-button, lines 37-42
ZoomOut ==
    /\ UserEvent
    /\ RoomForRequest
    /\ IF scale <= minScale
       THEN UNCHANGED << scale, pageIsRendering, pageNumIsPending, reqs, alerts >>
       ELSE /\ scale' = scale - scaleStep
            /\ QueueRenderPage(pageNum)
    /\ UNCHANGED << pdfDoc, pageNum, currentRenderTask, uiVars, documentId,
                    annotations, canvas, annotationCanvas, devicePixelRatio,
                    loads, fetches, resizeTimeout, raster, overlay >>
    /\ UNCHANGED << controllerVars, liveRect >>

\* lines 66-68 of the annotation-mode handler: the statements after the call
\* of renderPage, which run only if renderPage returned
disableAfterRender(threw, disabled) == IF threw THEN disabled ELSE TRUE

\* annotation-mode-button, lines 45-80
ToggleAnnotationMode ==
    /\ UserEvent
    /\ RoomForRequest
    /\ isAnnotationMode' = ~isAnnotationMode
    /\ IF ~isAnnotationMode
       THEN LET r == renderPage(pageNum, currentRenderTask, reqs, alerts)
            IN  /\ showAnnotations' = TRUE
                /\ pageIsRendering' = TRUE
                /\ reqs' = r.reqs
                /\ alerts' = r.alerts
                /\ showAnnotationsButtonDisabled' =
                       disableAfterRender(r.threw, showAnnotationsButtonDisabled)
       ELSE /\ showAnnotationsButtonDisabled' = FALSE
            /\ UNCHANGED << showAnnotations, pageIsRendering, reqs, alerts >>
    /\ UNCHANGED << pdfDoc, pageNum, scale, pageNumIsPending, currentRenderTask,
                    documentId, annotations, canvas, annotationCanvas,
                    devicePixelRatio, loads, fetches, resizeTimeout, raster,
                    overlay >>
    /\ UNCHANGED << controllerVars, liveRect >>

\* the show-annotations handler, were it to drop the cached annotations when
\* it hides them
ToggleShowAnnotationsForgetting ==
    /\ UserEvent
    /\ RoomForRequest
    /\ ~showAnnotationsButtonDisabled
    /\ showAnnotations' = ~showAnnotations
    /\ annotations' = IF showAnnotations THEN {} ELSE annotations
    /\ RenderPage(pageNum)
    /\ UNCHANGED << pdfDoc, pageNum, scale, currentRenderTask, isAnnotationMode,
                    showAnnotationsButtonDisabled, documentId,
                    canvas, annotationCanvas, devicePixelRatio, loads, fetches,
                    resizeTimeout, raster, overlay >>
    /\ UNCHANGED << controllerVars, liveRect >>

\* show-annotations-button, lines 83-97; a disabled button gets no click
ToggleShowAnnotations ==
    /\ UserEvent
    /\ RoomForRequest
    /\ ~showAnnotationsButtonDisabled
    /\ showAnnotations' = ~showAnnotations
    /\ RenderPage(pageNum)
    /\ UNCHANGED << pdfDoc, pageNum, scale, currentRenderTask, isAnnotationMode,
                    showAnnotationsButtonDisabled, documentId, annotations,
                    canvas, annotationCanvas, devicePixelRatio, loads, fetches,
                    resizeTimeout, raster, overlay >>
    /\ UNCHANGED << controllerVars, liveRect >>

\* a listener that arms a new timer at every event and clears none
notDebounced(timers) == timers + 1

\* debounce, main.js lines 54-65, on the number of armed timers:
\* clearTimeout(timeout) disarms the timer of the previous event, if it has
\* not fired, and setTimeout arms one
debounce(timers) == (IF timers > 0 THEN timers - 1 ELSE 0) + 1

\* the resize listener, controls.js line 221
WindowResize ==
    /\ UserEvent
    /\ resizeTimeout' = debounce(resizeTimeout)
    /\ UNCHANGED << pdfDoc, pageNum, scale, pageIsRendering, pageNumIsPending,
                    currentRenderTask, uiVars, documentId, annotations, canvas,
                    annotationCanvas, devicePixelRatio, reqs, loads, fetches,
                    alerts, raster, overlay >>
    /\ UNCHANGED << controllerVars, liveRect >>

\* the debounce timer fires: handleWindowResize, pdfRenderer.js lines 91-95
ResizeTimerFires ==
    /\ resizeTimeout > 0
    /\ RoomForRequest
    /\ resizeTimeout' = resizeTimeout - 1
    /\ IF pdfDoc # 0
       THEN RenderPage(pageNum)
       ELSE UNCHANGED << pageIsRendering, pageNumIsPending, reqs, alerts >>
    /\ UNCHANGED << pdfDoc, pageNum, scale, currentRenderTask, uiVars,
                    documentId, annotations, canvas, annotationCanvas,
                    devicePixelRatio, loads, fetches, raster, overlay, events >>
    /\ UNCHANGED << controllerVars, liveRect >>

(***************************************************************************)
(* Documents and annotations (documentManager.js, annotationManager.js)    *)
(***************************************************************************)
\* remove element i of a sequence
RemoveAt(s, i) == SubSeq(s, 1, i - 1) \o SubSeq(s, i + 1, Len(s))

\* the Load button of a document row: loadDocument, lines 53-57
LoadDocument(d) ==
    /\ UserEvent
    /\ documentId' = d
    /\ loads' = Append(loads, d)
    /\ UNCHANGED << pdfDoc, pageNum, scale, pageIsRendering, pageNumIsPending,
                    currentRenderTask, uiVars, annotations, canvas,
                    annotationCanvas, devicePixelRatio, reqs, fetches,
                    resizeTimeout, alerts, raster, overlay >>
    /\ UNCHANGED << controllerVars, liveRect >>

\* fetchAnnotations, lines 12-14: the fetches in flight after the call
fetchAnnotations(fs, docId) == IF docId = 0 THEN fs ELSE Append(fs, docId)

\* getDocument resolved: loadDocument lines 57-65. renderPage sees the new
\* document, so it cannot throw here.
LoadResolved(i) ==
    /\ i \in 1..Len(loads)
    /\ RoomForRequest
    /\ loads' = RemoveAt(loads, i)
    /\ pdfDoc' = loads[i]
    /\ pageNum' = 1
    /\ scale' = defaultScale
    /\ pageIsRendering' = TRUE
    /\ LET cancelled == cancelCurrent(reqs, currentRenderTask)
       IN  /\ reqs' = Append(cancelled,
                         [newRequest(1) EXCEPT !.doc = loads[i]])
           /\ alerts' = IF cancelled # reqs
                        THEN renderCatch(alerts, "RenderingCancelledException")
                        ELSE alerts
    /\ fetches' = fetchAnnotations(fetches, documentId)
    /\ UNCHANGED << pageNumIsPending, currentRenderTask, uiVars, documentId,
                    annotations, canvas, annotationCanvas, devicePixelRatio,
                    resizeTimeout, raster, overlay, events >>
    /\ UNCHANGED << controllerVars, liveRect >>

\* getDocument rejected: loadDocument lines 66-69
LoadRejected(i) ==
    /\ i \in 1..Len(loads)
    /\ loads' = RemoveAt(loads, i)
    /\ alerts' = alert(alerts, "Failed to load PDF")
    /\ UNCHANGED << pdfDoc, pageNum, scale, pageIsRendering, pageNumIsPending,
                    currentRenderTask, uiVars, documentId, annotations, canvas,
                    annotationCanvas, devicePixelRatio, reqs, fetches,
                    resizeTimeout, raster, overlay, events >>
    /\ UNCHANGED << controllerVars, liveRect >>

\* the annotation fetch resolved: fetchAnnotations lines 16-20. A throw of
\* renderPage lands in the catch of lines 21-24.
FetchResolved(i) ==
    /\ i \in 1..Len(fetches)
    /\ RoomForRequest
    /\ fetches' = RemoveAt(fetches, i)
    /\ annotations' = stored(fetches[i])
    /\ LET r == renderPage(pageNum, currentRenderTask, reqs, alerts)
       IN  /\ pageIsRendering' = TRUE
           /\ reqs' = r.reqs
           /\ alerts' = IF r.threw
                        THEN alert(r.alerts, "Failed to fetch annotations")
                        ELSE r.alerts
    /\ UNCHANGED << pdfDoc, pageNum, scale, pageNumIsPending, currentRenderTask,
                    uiVars, documentId, canvas, annotationCanvas,
                    devicePixelRatio, loads, resizeTimeout, raster, overlay,
                    events >>
    /\ UNCHANGED << controllerVars, liveRect >>

\* the annotation fetch failed: fetchAnnotations lines 21-24
FetchRejected(i) ==
    /\ i \in 1..Len(fetches)
    /\ fetches' = RemoveAt(fetches, i)
    /\ alerts' = alert(alerts, "Failed to fetch annotations")
    /\ UNCHANGED << pdfDoc, pageNum, scale, pageIsRendering, pageNumIsPending,
                    currentRenderTask, uiVars, documentId, annotations, canvas,
                    annotationCanvas, devicePixelRatio, reqs, loads,
                    resizeTimeout, raster, overlay, events >>
    /\ UNCHANGED << controllerVars, liveRect >>

\* the Go button of an annotation row: updateAnnotationList lines 68-72
GoToAnnotation(ann) ==
    /\ UserEvent
    /\ RoomForRequest
    /\ ann \in annotations
    /\ pageNum' = ann.page
    /\ QueueRenderPage(ann.page)
    /\ UNCHANGED << pdfDoc, scale, currentRenderTask, uiVars, documentId,
                    annotations, canvas, annotationCanvas, devicePixelRatio,
                    loads, fetches, resizeTimeout, raster, overlay >>
    /\ UNCHANGED << controllerVars, liveRect >>

(***************************************************************************)
(* The promise callbacks of renderPage (pdfRenderer.js)                    *)
(***************************************************************************)
\* getPage resolved: lines 18-44. Both canvases are sized (which clears
\* them) and the raster task is started.
GetPageResolved(i) ==
    /\ i \in 1..Len(reqs)
    /\ reqs[i].st = "getPage"
    /\ reqs[i].page \in 1..numPages(reqs[i].doc)
    /\ LET rotation == pageRotate(reqs[i].page) % 360
           viewport == getViewport(scale, rotation)
           dpr      == effectiveDpr(devicePixelRatio)
       IN  /\ canvas' = sizeCanvas(viewport, dpr)
           /\ annotationCanvas' = sizeAnnotationCanvas(viewport, dpr)
    /\ raster' = blank
    /\ overlay' = blank
    /\ reqs' = [reqs EXCEPT ![i].st = "running", ![i].scale = scale]
    /\ currentRenderTask' = i
    /\ UNCHANGED << pdfDoc, pageNum, scale, pageIsRendering, pageNumIsPending,
                    uiVars, documentId, annotations, devicePixelRatio, loads,
                    fetches, resizeTimeout, alerts, events >>
    /\ liveRect' = << >>
    /\ UNCHANGED controllerVars

\* getPage rejected: lines 67-70
GetPageRejected(i) ==
    /\ i \in 1..Len(reqs)
    /\ reqs[i].st = "getPage"
    /\ reqs' = [reqs EXCEPT ![i] = finished("getPageFailed")]
    /\ alerts' = alert(alerts, "Failed to get page")
    /\ UNCHANGED << pdfDoc, pageNum, scale, pageIsRendering, pageNumIsPending,
                    currentRenderTask, uiVars, documentId, annotations, canvas,
                    annotationCanvas, devicePixelRatio, loads, fetches,
                    resizeTimeout, raster, overlay, events >>
    /\ UNCHANGED << controllerVars, liveRect >>

\* the raster task succeeded: lines 46-56
RenderSucceeded(i) ==
    /\ i \in 1..Len(reqs)
    /\ reqs[i].st = "running"
    /\ pageNumIsPending # 0 => RoomForRequest
    /\ raster' = [page |-> reqs[i].page, scale |-> reqs[i].scale, ids |-> {},
                rects |-> {}]
    /\ currentRenderTask' = 0
    /\ pageNumIsPending' = 0
    /\ LET done == [reqs EXCEPT ![i] = finished("succeeded")]
           \* a throw of drawAnnotations lands in the catch of lines 57-65
           caught(al) == IF drawAnnotationsThrows
                         THEN renderCatch(al, "TypeError")
                         ELSE al
       IN  IF pageNumIsPending # 0
           THEN LET r == renderPage(pageNumIsPending, 0, noteStarted(reqs), alerts)
                IN  /\ pageIsRendering' = TRUE
                    /\ reqs' = [r.reqs EXCEPT ![i] = finished("succeeded")]
                    /\ alerts' = caught(r.alerts)
           ELSE /\ pageIsRendering' = FALSE
                /\ reqs' = done
                /\ alerts' = caught(alerts)
    /\ overlay' = drawAnnotations(reqs[i].page)
    /\ UNCHANGED << pdfDoc, pageNum, scale, uiVars, documentId, annotations,
                    canvas, annotationCanvas, devicePixelRatio, loads, fetches,
                    resizeTimeout, events >>
    /\ liveRect' = << >>
    /\ UNCHANGED controllerVars

\* the raster task failed with a genuine error: lines 57-65
RenderFailed(i) ==
    /\ i \in 1..Len(reqs)
    /\ reqs[i].st = "running"
    /\ reqs' = [reqs EXCEPT ![i] = finished("failed")]
    /\ alerts' = renderCatch(alerts, "Error")
    /\ UNCHANGED << pdfDoc, pageNum, scale, pageIsRendering, pageNumIsPending,
                    currentRenderTask, uiVars, documentId, annotations, canvas,
                    annotationCanvas, devicePixelRatio, loads, fetches,
                    resizeTimeout, raster, overlay, events >>
    /\ UNCHANGED << controllerVars, liveRect >>

Next ==
    \/ PrevPage
    \/ NextPage
    \/ ZoomIn
    \/ ZoomOut
    \/ ToggleAnnotationMode
    \/ ToggleShowAnnotations
    \/ WindowResize
    \/ ResizeTimerFires
    \/ \E d \in Docs : LoadDocument(d)
    \/ \E i \in 1..Len(loads) : LoadResolved(i)
    \/ \E i \in 1..Len(loads) : LoadRejected(i)
    \/ \E i \in 1..Len(fetches) : FetchResolved(i)
    \/ \E i \in 1..Len(fetches) : FetchRejected(i)
    \/ \E ann \in annotations : GoToAnnotation(ann)
    \/ \E i \in 1..Len(reqs) : GetPageResolved(i)
    \/ \E i \in 1..Len(reqs) : GetPageRejected(i)
    \/ \E i \in 1..Len(reqs) : RenderSucceeded(i)
    \/ \E i \in 1..Len(reqs) : RenderFailed(i)

Spec == Init /\ [][Next]_vars

(***************************************************************************)
(* The annotation controller: the pointer handlers of the overlay canvas   *)
(* (controls.js lines 103-218), the prompt (modal.js) and the save.        *)
(*                                                                         *)
(* Pointer positions are CSS pixels relative to the overlay canvas         *)
(* (e.clientX - rect.left); start and end points are kept divided by the   *)
(* scale, as the code keeps them. The positions and zoom levels below are  *)
(* chosen so that every quotient is a whole number.                        *)
(***************************************************************************)
\* pointer events, prompt buttons and toolbar clicks in one behaviour
MaxPointerEvents == 4

\* the zoom levels the drags are made at: 0.5, 1.0 and 2.0
DrawScales == {2, 4, 8}

\* the places of the pointer events: clientX - rect.left and
\* clientY - rect.top
Points == { << 0, 0 >>, << 8, 20 >>, << 20, 20 >> }

\* the answers of GET /data_elements_by_document_type/1: the names of the
\* data elements
DataElementLists == { << >>, << "label" >>, << " ", "label" >> }

\* String.prototype.trim on the names above
trim(v) == IF v = " " THEN "" ELSE v

\* (e.clientX - rect.left) / state.scale
toDocument(p) == (p * 4) \div scale

\* v * state.scale
toScreen(v) == (v * scale) \div 4

\* the border of #annotation-canvas, styles.css: 1px, in quarter pixels
canvasBorder == 4

\* where the browser shows pixel b of a canvas whose pixel buffer is bufLen
\* pixels long and whose style length is styleLen, measured from the edge of
\* getBoundingClientRect(): the buffer is laid out over the style length
\* (renderPage lines 33-36), inside the border. b and styleLen are in quarter
\* pixels; the result is the fraction << numerator, denominator >> of quarter
\* CSS pixels
toLayout(b, bufLen, styleLen) ==
    << canvasBorder * 4 * bufLen + b * styleLen, 4 * bufLen >>

\* (e.clientX - rect.left) / state.scale for a pointer at the fraction c of
\* quarter CSS pixels, as a fraction of document units
pointerToDocument(c, sc) == << c[1], c[2] * sc >>

\* the fraction f is the whole number v
isWhole(f, v) == f[1] = v * f[2]

\* the smallest width and height the pointer-up handler accepts, line 158
minAnnotationSize == 10

\* lines 142-145 alone: the rectangle from the start point to (endX, endY)
\* with its extents as they come, negative for a drag to the left or upwards
normalizeUnturned(endX, endY) ==
    [x      |-> startX,
     y      |-> startY,
     width  |-> endX - startX,
     height |-> endY - startY]

\* lines 142-155: the rectangle from the start point to (endX, endY), with
\* negative extents turned round
normalize(endX, endY) ==
    LET width  == endX - startX
        height == endY - startY
    IN  [x      |-> IF width < 0 THEN startX + width ELSE startX,
         y      |-> IF height < 0 THEN startY + height ELSE startY,
         width  |-> IF width < 0 THEN -width ELSE width,
         height |-> IF height < 0 THEN -height ELSE height]

\* a size check that refuses only rectangles too small in both directions
tooSmallInBoth(r) == r.width < minAnnotationSize /\ r.height < minAnnotationSize

\* line 158
tooSmall(r) == r.width < minAnnotationSize \/ r.height < minAnnotationSize

\* a pointer event or a click on a button of the prompt
PointerEvent ==
    /\ events < MaxPointerEvents
    /\ events' = events + 1

\* the prompt's overlay covers the whole window: while it is open the
\* canvas gets no pointer event
CanvasReachable == ~modal.open

\* what every handler of this section leaves alone
schedulerVars ==
    << pdfDoc, pageNum, scale, pageIsRendering, pageNumIsPending,
       currentRenderTask, uiVars, documentId, canvas, annotationCanvas,
       devicePixelRatio, reqs, loads, resizeTimeout, raster >>

\* a pointer-up that leaves the drag state as it is
endDragSkipped == UNCHANGED isDrawing

\* state.isDrawing = false, lines 137 and 214
endDrag == isDrawing' = FALSE

\* a handler end that leaves the overlay as it is
keepOverlay == UNCHANGED << overlay, liveRect >>

\* a redraw under the live rectangle, which stays
redrawUnderLiveRect ==
    /\ overlay' = drawAnnotations(pageNum)
    /\ UNCHANGED liveRect

\* clearRect and drawAnnotations(state.pageNum), lines 160-161, 199-200,
\* 206-207 and 215-216: the live rectangle is wiped and the cached
\* annotations of the page are drawn
redrawPersisted ==
    /\ overlay' = drawAnnotations(pageNum)
    /\ liveRect' = << >>

\* a pointer-down handler without the check of line 104
MouseDownUnguarded(pt) ==
    /\ PointerEvent
    /\ CanvasReachable
    /\ isDrawing' = TRUE
    /\ startX' = toDocument(pt[1])
    /\ startY' = toDocument(pt[2])
    /\ UNCHANGED << schedulerVars, annotations, fetches, alerts, overlay,
                    liveRect, modal, posts, backend >>

\* mousedown, lines 103-110
MouseDown(pt) ==
    /\ PointerEvent
    /\ CanvasReachable
    /\ IF isAnnotationMode
       THEN /\ isDrawing' = TRUE
            /\ startX' = toDocument(pt[1])
            /\ startY' = toDocument(pt[2])
       ELSE UNCHANGED << isDrawing, startX, startY >>
    /\ UNCHANGED << schedulerVars, annotations, fetches, alerts, overlay,
                    liveRect, modal, posts, backend >>

\* a pointer-move handler that redraws by rendering the page again
MouseMoveRendering(pt) ==
    /\ CanvasReachable
    /\ RoomForRequest
    /\ IF isDrawing
       THEN RenderPage(pageNum)
       ELSE UNCHANGED << pageIsRendering, pageNumIsPending, reqs, alerts >>
    /\ UNCHANGED << pdfDoc, pageNum, scale, currentRenderTask, uiVars,
                    documentId, canvas, annotationCanvas, devicePixelRatio,
                    loads, resizeTimeout, raster, annotations, fetches,
                    events, controllerVars, overlay, liveRect >>

\* mousemove, lines 112-133: the overlay is redrawn and the rectangle from
\* the start point to the pointer is stroked on top; a throw of
\* drawAnnotations ends the handler before the stroke
MouseMove(pt) ==
    /\ CanvasReachable
    /\ IF isDrawing
       THEN /\ overlay' = drawAnnotations(pageNum)
            /\ liveRect' =
                   IF drawAnnotationsThrows
                   THEN << >>
                   ELSE << toScreen(startX), toScreen(startY),
                           toScreen(toDocument(pt[1]) - startX),
                           toScreen(toDocument(pt[2]) - startY) >>
       ELSE UNCHANGED << overlay, liveRect >>
    /\ UNCHANGED << schedulerVars, annotations, fetches, alerts, events,
                    controllerVars >>

\* mouseup, lines 135-166: up to the await of showAnnotationModal(), whose
\* executor builds the prompt and starts the fetch of the data elements
\* (modal.js lines 8-80)
MouseUp(pt) ==
    /\ PointerEvent
    /\ CanvasReachable
    /\ IF isDrawing
       THEN LET r == normalize(toDocument(pt[1]), toDocument(pt[2]))
            IN  /\ endDrag
                /\ IF tooSmall(r)
                   THEN /\ alerts' = alert(alerts,
                               "Annotation too small. Please draw a larger area.")
                        /\ redrawPersisted
                        /\ UNCHANGED modal
                   ELSE /\ modal' = [open |-> TRUE, fetch |-> "pending",
                                     options |-> << >>, value |-> "",
                                     x |-> r.x, y |-> r.y, width |-> r.width,
                                     height |-> r.height, scale |-> scale,
                                     shown |-> raster.page]
                        /\ UNCHANGED << alerts, overlay, liveRect >>
       ELSE UNCHANGED << isDrawing, alerts, overlay, liveRect, modal >>
    /\ UNCHANGED << schedulerVars, annotations, fetches, startX, startY,
                    posts, backend >>

\* mouseleave, lines 212-218
MouseLeave ==
    /\ PointerEvent
    /\ CanvasReachable
    /\ IF isDrawing
       THEN /\ endDrag
            /\ redrawPersisted
       ELSE UNCHANGED << isDrawing, overlay, liveRect >>
    /\ UNCHANGED << schedulerVars, annotations, fetches, alerts, startX,
                    startY, modal, posts, backend >>

\* the data elements arrived: modal.js lines 71-79. The select shows its
\* first option.
ModalOptionsLoaded(list) ==
    /\ modal.open
    /\ modal.fetch = "pending"
    /\ modal' = [modal EXCEPT !.fetch = "done", !.options = list,
                              !.value = IF list = << >> THEN "" ELSE list[1]]
    /\ UNCHANGED << schedulerVars, annotations, fetches, alerts, overlay,
                    events, isDrawing, startX, startY, liveRect, posts,
                    backend >>

\* the fetch of the data elements failed: the promise chain of modal.js
\* lines 69-80 has no catch, nothing happens
ModalOptionsFailed ==
    /\ modal.open
    /\ modal.fetch = "pending"
    /\ modal' = [modal EXCEPT !.fetch = "failed"]
    /\ UNCHANGED << schedulerVars, annotations, fetches, alerts, overlay,
                    events, isDrawing, startX, startY, liveRect, posts,
                    backend >>

\* the user picks another option of the select
ModalSelect(k) ==
    /\ modal.open
    /\ k \in 1..Len(modal.options)
    /\ modal.value # modal.options[k]
    /\ modal' = [modal EXCEPT !.value = modal.options[k]]
    /\ UNCHANGED << schedulerVars, annotations, fetches, alerts, overlay,
                    events, isDrawing, startX, startY, liveRect, posts,
                    backend >>

\* the annotation the pointer-up handler posts, controls.js lines 170-179
newAnnotation(name) ==
    [id |-> 0, document_id |-> documentId, page |-> pageNum,
     x |-> modal.x, y |-> modal.y, width |-> modal.width,
     height |-> modal.height, value |-> name, scale |-> modal.scale,
     shown |-> modal.shown]

\* a check that lets every label through
emptyLabelAccepted(v) == FALSE

\* dataElementSelect.value.trim() === '', modal.js line 163
emptyLabel(v) == trim(v) = ""

\* Submit, modal.js lines 162-174, and the continuation of the pointer-up
\* handler up to the fetch of controls.js line 181
ModalSubmit ==
    /\ PointerEvent
    /\ modal.open
    /\ IF emptyLabel(modal.value)
       THEN /\ alerts' = alert(alerts, "Please select a data element")
            /\ UNCHANGED << modal, posts >>
       ELSE /\ modal' = closedModal
            /\ posts' = Append(posts, newAnnotation(trim(modal.value)))
            /\ UNCHANGED alerts
    /\ UNCHANGED << schedulerVars, annotations, fetches, overlay, isDrawing,
                    startX, startY, liveRect, backend >>

\* Discard, modal.js lines 176-180, and the else branch of the pointer-up
\* handler, controls.js lines 197-201; a throw of drawAnnotations lands in
\* the catch of lines 202-208
ModalDiscard ==
    /\ PointerEvent
    /\ modal.open
    /\ modal' = closedModal
    /\ redrawPersisted
    /\ alerts' = IF drawAnnotationsThrows
                 THEN alert(alerts,
                     "An error occurred while processing the annotation. Please try again.")
                 ELSE alerts
    /\ UNCHANGED << schedulerVars, annotations, fetches, isDrawing, startX,
                    startY, posts, backend >>

\* the id the backend gives the next annotation
nextId ==
    LET ids == { a.id : a \in backend }
    IN  1 + CHOOSE m \in ids \cup {0} : \A n \in ids : n <= m

\* the annotation as the backend stores it
storedAs(post) ==
    [id |-> nextId, document_id |-> post.document_id, page |-> post.page,
     x |-> post.x, y |-> post.y, width |-> post.width,
     height |-> post.height, value |-> post.value]

\* the POST was answered with an ok response: controls.js lines 189-196.
\* fetchAnnotations() returns undefined, so the await of line 194 continues
\* in the same turn of the event loop.
SaveResolved(i) ==
    /\ i \in 1..Len(posts)
    /\ posts' = RemoveAt(posts, i)
    /\ backend' = backend \cup { storedAs(posts[i]) }
    /\ fetches' = fetchAnnotations(fetches, documentId)
    /\ alerts' = alert(alerts, "Annotation saved successfully.")
    /\ UNCHANGED << schedulerVars, annotations, overlay, events, isDrawing,
                    startX, startY, liveRect, modal >>

\* a failed save that tells the user nothing
SaveRejectedUnnoticed(i) ==
    /\ i \in 1..Len(posts)
    /\ posts' = RemoveAt(posts, i)
    /\ redrawPersisted
    /\ UNCHANGED << schedulerVars, annotations, fetches, alerts, events,
                    isDrawing, startX, startY, modal, backend >>

\* the POST failed, or its response was not ok: controls.js lines 189-191
\* and the catch of lines 202-208
SaveRejected(i) ==
    /\ i \in 1..Len(posts)
    /\ posts' = RemoveAt(posts, i)
    /\ alerts' = alert(alerts,
           "An error occurred while processing the annotation. Please try again.")
    /\ redrawPersisted
    /\ UNCHANGED << schedulerVars, annotations, fetches, events, isDrawing,
                    startX, startY, modal, backend >>

\* the annotation fetch was answered with an error response whose body is a
\* JSON object: fetchAnnotations lines 15-19 do not look at response.ok, the
\* body is stored, updateAnnotationList throws at forEach (line 45) and the
\* catch of lines 21-24 runs
FetchErrorResponse(i) ==
    /\ i \in 1..Len(fetches)
    /\ fetches' = RemoveAt(fetches, i)
    /\ annotations' = errorBody
    /\ alerts' = alert(alerts, "Failed to fetch annotations")
    /\ UNCHANGED << schedulerVars, overlay, events, controllerVars, liveRect >>

\* a document is on screen and annotation mode is on: document 1 was
\* loaded, its annotations were fetched, the user went to its last page, chose
\* one of the zoom levels and switched annotation mode on, and the page was
\* rendered; finished render requests are not kept
DrawInit ==
    /\ pdfDoc = 1
    /\ documentId = 1
    /\ pageNum = numPages(1)
    /\ scale \in DrawScales
    /\ pageIsRendering = FALSE
    /\ pageNumIsPending = 0
    /\ currentRenderTask = 0
    /\ isAnnotationMode = TRUE
    /\ showAnnotations = TRUE
    /\ showAnnotationsButtonDisabled = TRUE
    /\ backend = initialBackend
    /\ annotations = stored(1)
    /\ devicePixelRatio = 1
    /\ canvas = sizeCanvas(getViewport(scale, pageRotate(pageNum) % 360),
                           effectiveDpr(devicePixelRatio))
    /\ annotationCanvas = canvas
    /\ reqs = << >>
    /\ loads = << >>
    /\ fetches = << >>
    /\ resizeTimeout = 0
    /\ alerts = [m \in Messages |-> 0]
    /\ raster = [page |-> pageNum, scale |-> scale, ids |-> {}, rects |-> {}]
    /\ overlay = drawAnnotations(pageNum)
    /\ events = 0
    /\ isDrawing = FALSE
    /\ startX = 0
    /\ startY = 0
    /\ liveRect = << >>
    /\ modal = closedModal
    /\ posts = << >>

DrawNext ==
    \/ \E pt \in Points : MouseDown(pt)
    \/ \E pt \in Points : MouseMove(pt)
    \/ \E pt \in Points : MouseUp(pt)
    \/ MouseLeave
    \/ \E list \in DataElementLists : ModalOptionsLoaded(list)
    \/ ModalOptionsFailed
    \/ \E k \in 1..Len(modal.options) : ModalSelect(k)
    \/ ModalSubmit
    \/ ModalDiscard
    \/ \E i \in 1..Len(posts) : SaveResolved(i)
    \/ \E i \in 1..Len(posts) : SaveRejected(i)
    \/ \E i \in 1..Len(fetches) : FetchResolved(i)
    \/ \E i \in 1..Len(fetches) : FetchRejected(i)
    \/ \E i \in 1..Len(fetches) : FetchErrorResponse(i)
    \/ ToggleAnnotationMode
    \/ \E i \in 1..Len(reqs) : GetPageResolved(i)
    \/ \E i \in 1..Len(reqs) : GetPageRejected(i)
    \/ \E i \in 1..Len(reqs) : RenderSucceeded(i)
    \/ \E i \in 1..Len(reqs) : RenderFailed(i)

DrawSpec == DrawInit /\ [][DrawNext]_vars

(***************************************************************************)
(* The viewer with a document on screen                                    *)
(***************************************************************************)
\* zoom levels the user has chosen with the zoom buttons before the behaviour
\* starts: the two limits of state.js and 2.0
ViewScales == {minScale, 2 * defaultScale, maxScale}

\* document 1 was loaded on a high-density screen, its annotations were
\* fetched, the user went to its last page and chose one of the zoom levels,
\* and the page was rendered; finished render requests are not kept
ViewInit ==
    /\ pdfDoc = 1
    /\ documentId = 1
    /\ pageNum = numPages(1)
    /\ scale \in ViewScales
    /\ pageIsRendering = FALSE
    /\ pageNumIsPending = 0
    /\ currentRenderTask = 0
    /\ isAnnotationMode = FALSE
    /\ showAnnotations = TRUE
    /\ showAnnotationsButtonDisabled = FALSE
    /\ backend = initialBackend
    /\ annotations = stored(1)
    /\ devicePixelRatio = 2
    /\ canvas = sizeCanvas(getViewport(scale, pageRotate(pageNum) % 360),
                           effectiveDpr(devicePixelRatio))
    /\ annotationCanvas = canvas
    /\ reqs = << >>
    /\ loads = << >>
    /\ fetches = << >>
    /\ resizeTimeout = 0
    /\ alerts = [m \in Messages |-> 0]
    /\ raster = [page |-> pageNum, scale |-> scale, ids |-> {}, rects |-> {}]
    /\ overlay = drawAnnotations(pageNum)
    /\ events = 0
    /\ isDrawing = FALSE
    /\ startX = 0
    /\ startY = 0
    /\ liveRect = << >>
    /\ modal = closedModal
    /\ posts = << >>

ViewSpec == ViewInit /\ [][Next]_vars

\* the same viewer when the user only clicks the show-annotations button: the
\* annotation set, the page and the scale stay as they are
ToggleNext ==
    \/ ToggleShowAnnotations
    \/ \E i \in 1..Len(reqs) : GetPageResolved(i)
    \/ \E i \in 1..Len(reqs) : GetPageRejected(i)
    \/ \E i \in 1..Len(reqs) : RenderSucceeded(i)
    \/ \E i \in 1..Len(reqs) : RenderFailed(i)

ToggleSpec == ViewInit /\ [][ToggleNext]_vars

\* the window is resized, before a document is chosen or with one on screen,
\* and the user does nothing else
ResizeNext ==
    \/ WindowResize
    \/ ResizeTimerFires
    \/ \E i \in 1..Len(reqs) : GetPageResolved(i)
    \/ \E i \in 1..Len(reqs) : GetPageRejected(i)
    \/ \E i \in 1..Len(reqs) : RenderSucceeded(i)
    \/ \E i \in 1..Len(reqs) : RenderFailed(i)

ResizeSpec == (Init \/ ViewInit) /\ [][ResizeNext]_vars

(***************************************************************************)
(* The annotation controller together with the page buttons and the        *)
(* document list: drags made while a page change or a document load is     *)
(* under way                                                               *)
(***************************************************************************)
\* the prompt's overlay (modal.js lines 11-22: fixed, 100vw x 100vh,
\* z-index 1000) lies over the toolbar and the document list as well
ToolbarReachable == ~modal.open

\* the drags are made at the default zoom level, with annotation mode on
AnnotateInit ==
    /\ DrawInit
    /\ scale = defaultScale

\* the data elements the backend has for the document type
AnnotateDataElements == << "label" >>

AnnotateNext ==
    \/ \E pt \in Points : MouseDown(pt)
    \/ \E pt \in Points : MouseMove(pt)
    \/ \E pt \in Points : MouseUp(pt)
    \/ MouseLeave
    \/ ModalOptionsLoaded(AnnotateDataElements)
    \/ ModalSubmit
    \/ ModalDiscard
    \/ \E i \in 1..Len(fetches) : FetchResolved(i)
    \/ \E i \in 1..Len(fetches) : FetchRejected(i)
    \/ ToolbarReachable /\ PrevPage
    \/ ToolbarReachable /\ NextPage
    \/ \E d \in Docs : ToolbarReachable /\ LoadDocument(d)
    \/ \E i \in 1..Len(loads) : LoadResolved(i)
    \/ \E i \in 1..Len(loads) : LoadRejected(i)
    \/ \E i \in 1..Len(reqs) : GetPageResolved(i)
    \/ \E i \in 1..Len(reqs) : GetPageRejected(i)
    \/ \E i \in 1..Len(reqs) : RenderSucceeded(i)
    \/ \E i \in 1..Len(reqs) : RenderFailed(i)

AnnotateSpec == AnnotateInit /\ [][AnnotateNext]_vars

\* the same viewer when the user only drags, turns pages and discards the
\* prompt
PointerNext ==
    \/ \E pt \in Points : MouseDown(pt)
    \/ \E pt \in Points : MouseMove(pt)
    \/ \E pt \in Points : MouseUp(pt)
    \/ MouseLeave
    \/ ModalDiscard
    \/ ToolbarReachable /\ PrevPage
    \/ ToolbarReachable /\ NextPage
    \/ \E i \in 1..Len(reqs) : GetPageResolved(i)
    \/ \E i \in 1..Len(reqs) : GetPageRejected(i)
    \/ \E i \in 1..Len(reqs) : RenderSucceeded(i)
    \/ \E i \in 1..Len(reqs) : RenderFailed(i)

PointerSpec == AnnotateInit /\ [][PointerNext]_vars

(***************************************************************************)
(* A document is displayed while another is being loaded                   *)
(***************************************************************************)
\* document 1 is on screen at its last page, zoomed to 2.0, and the user
\* has just clicked Load on the row of document 2: state.documentId is
\* assigned and getDocument is pending
ReloadInit ==
    /\ pdfDoc = 1
    /\ documentId = 2
    /\ pageNum = numPages(1)
    /\ scale = 2 * defaultScale
    /\ pageIsRendering = FALSE
    /\ pageNumIsPending = 0
    /\ currentRenderTask = 0
    /\ isAnnotationMode = FALSE
    /\ showAnnotations = TRUE
    /\ showAnnotationsButtonDisabled = FALSE
    /\ backend = initialBackend
    /\ annotations = stored(1)
    /\ devicePixelRatio = 2
    /\ canvas = sizeCanvas(getViewport(scale, pageRotate(pageNum) % 360),
                           effectiveDpr(devicePixelRatio))
    /\ annotationCanvas = canvas
    /\ reqs = << >>
    /\ loads = << 2 >>
    /\ fetches = << >>
    /\ resizeTimeout = 0
    /\ alerts = [m \in Messages |-> 0]
    /\ raster = [page |-> pageNum, scale |-> scale, ids |-> {}, rects |-> {}]
    /\ overlay = drawAnnotations(pageNum)
    /\ events = 0
    /\ isDrawing = FALSE
    /\ startX = 0
    /\ startY = 0
    /\ liveRect = << >>
    /\ modal = closedModal
    /\ posts = << >>

\* the user turns pages while the load is under way
ReloadNext ==
    \/ PrevPage
    \/ NextPage
    \/ \E i \in 1..Len(loads) : LoadResolved(i)
    \/ \E i \in 1..Len(loads) : LoadRejected(i)
    \/ \E i \in 1..Len(fetches) : FetchResolved(i)
    \/ \E i \in 1..Len(fetches) : FetchRejected(i)
    \/ \E i \in 1..Len(reqs) : GetPageResolved(i)
    \/ \E i \in 1..Len(reqs) : GetPageRejected(i)
    \/ \E i \in 1..Len(reqs) : RenderSucceeded(i)
    \/ \E i \in 1..Len(reqs) : RenderFailed(i)

ReloadSpec == ReloadInit /\ [][ReloadNext]_vars

(***************************************************************************)
(* Properties                                                              *)
(***************************************************************************)
\* requests whose getPage or raster task is still to complete
Active(rs) == { i \in 1..Len(rs) : rs[i].st \in {"getPage", "running"} }

\* requests whose raster task was started
Started(rs) ==
    { i \in 1..Len(rs) : rs[i].st \in {"running", "succeeded", "failed", "cancelled"} }

\* some promise or timer is still to complete
Outstanding ==
    \/ Active(reqs) # {}
    \/ loads # << >>
    \/ fetches # << >>
    \/ resizeTimeout > 0

\* C1: in every reachable state at most one raster task is in flight.
C1_AtMostOneRasterTask == Cardinality(Running(reqs)) <= 1

\* C2: coalescing. When a raster task succeeds during whose flight pages
\* were queued, exactly one render is started from the pending page: it is
\* started in that step, it is for the last page queued, and no render of a
\* queued page was started earlier during the flight.
C2_Coalescing ==
    [][\A i \in 1..Len(reqs) :
          (RenderSucceeded(i) /\ reqs[i].queued # 0)
              => /\ Len(reqs') = Len(reqs) + 1
                 /\ reqs'[Len(reqs')].page = reqs[i].queued
                 /\ reqs[i].started = 0]_vars

\* C3: when a raster task is started, no raster task started earlier is
\* still in flight without having been cancelled.
C3_CancelBeforeStart ==
    [][\A i \in 1..Len(reqs) : GetPageResolved(i) => Running(reqs) = {}]_vars

\* C4: when a raster task fails with a genuine error, an alert is shown,
\* pageIsRendering becomes false and a pending page is still honoured (its
\* render is started, or it stays recorded).
C4_RenderFailureRecovers ==
    [][\A i \in 1..Len(reqs) :
          RenderFailed(i)
              => /\ alertCount(alerts') = alertCount(alerts) + 1
                 /\ pageIsRendering' = FALSE
                 /\ pageNumIsPending # 0
                      => \/ /\ Len(reqs') = Len(reqs) + 1
                            /\ reqs'[Len(reqs')].page = pageNumIsPending
                         \/ pageNumIsPending' = pageNumIsPending]_vars

\* a step in which a getPage, a raster task, a document load or an
\* annotation fetch fails
FailureStep ==
    \/ \E i \in 1..Len(reqs) : GetPageRejected(i) \/ RenderFailed(i)
    \/ \E i \in 1..Len(loads) : LoadRejected(i)
    \/ \E i \in 1..Len(fetches) : FetchRejected(i)

\* C5: every asynchronous failure produces a notification, and after a
\* failure a page request recorded for a loaded document is not left with
\* nothing in flight that would render it.
C5_FailuresCaughtAndRecoverable ==
    /\ [][FailureStep => alertCount(alerts') = alertCount(alerts) + 1]_vars
    /\ []((alertCount(alerts) > 0 /\ pdfDoc # 0 /\ pageNumIsPending # 0)
             => Outstanding)

\* C6: a step that cancels a raster task shows no alert, and every cancelled
\* task is followed by a later render that started, or the scheduler is
\* Idle, or something that can still start the superseding render is
\* outstanding.
C6_CancellationSilent ==
    /\ [][(\E i \in Running(reqs) : reqs'[i].st = "cancelled")
             => alerts' = alerts]_vars
    /\ [](\A i \in 1..Len(reqs) :
             reqs[i].st = "cancelled"
                 => \/ \E j \in Started(reqs) : j > i
                    \/ ~pageIsRendering
                    \/ Outstanding)

\* C7: last request wins. With a document loaded, nothing left to complete
\* and no failure so far, the scheduler is Idle and the raster and the
\* overlay show the current page at the current scale.
C7_LastRequestWins ==
    (pdfDoc # 0 /\ ~Outstanding /\ alertCount(alerts) = 0)
        => /\ ~pageIsRendering
           /\ pageNumIsPending = 0
           /\ raster.page = pageNum /\ raster.scale = scale
           /\ overlay.page = pageNum /\ overlay.scale = scale

\* C8: registration. The raster canvas and the overlay canvas always have
\* the same pixel-buffer size and the same layout size; once sized, the
\* pixel-buffer size is the layout size times the device pixel ratio.
C8_Registration ==
    /\ canvas = annotationCanvas
    /\ canvas.styleWidth # 0
         => /\ annotationCanvas.width =
                  toCanvasLength(canvas.styleWidth * effectiveDpr(devicePixelRatio))
            /\ annotationCanvas.height =
                  toCanvasLength(canvas.styleHeight * effectiveDpr(devicePixelRatio))

\* C8 happens: both canvases were sized for a rotated page on a high-density
\* screen
C8_Witness ==
    /\ canvas.styleWidth > canvas.styleHeight
    /\ canvas.styleHeight # 0
    /\ devicePixelRatio = 2
    /\ annotationCanvas.width = 2 * toCanvasLength(annotationCanvas.styleWidth)

\* C9: enabling annotation mode sets showAnnotations and disables the
\* show-annotations button; disabling it enables the button again and keeps
\* showAnnotations.
C9_ModeExclusivity ==
    [][ToggleAnnotationMode
          => IF isAnnotationMode'
             THEN showAnnotations' /\ showAnnotationsButtonDisabled'
             ELSE /\ ~showAnnotationsButtonDisabled'
                  /\ showAnnotations' = showAnnotations]_vars

\* C10: whenever annotation mode is on, annotations are shown and the
\* show-annotations button is disabled.
C10_ModeImpliesVisible ==
    isAnnotationMode => (showAnnotations /\ showAnnotationsButtonDisabled)

(***************************************************************************)
(* Properties of the annotation controller (DrawSpec)                      *)
(***************************************************************************)
\* |v|
abs(v) == IF v < 0 THEN -v ELSE v

\* the pointer-up at pt ends a drag whose rectangle is narrower or lower than
\* the minimum
SmallDragEnds(pt) ==
    /\ MouseUp(pt)
    /\ isDrawing
    /\ \/ abs(toDocument(pt[1]) - startX) < minAnnotationSize
       \/ abs(toDocument(pt[2]) - startY) < minAnnotationSize

\* C11: in every reachable state a drag in progress implies that annotation
\* mode is on (switching annotation mode off ends a drag).
C11_DrawingImpliesMode == isDrawing => isAnnotationMode

\* C12: a pointer-up that ends a drag with normalized width < 10 or
\* height < 10 discards the proposal: the prompt is not opened, no request
\* is sent, the cached and the stored annotations are unchanged, the live
\* rectangle is gone and the drag state is Idle.
C12_SmallRectangleRejected ==
    [][\A pt \in Points :
          SmallDragEnds(pt)
              => /\ ~modal'.open
                 /\ posts' = posts
                 /\ fetches' = fetches
                 /\ annotations' = annotations
                 /\ backend' = backend
                 /\ liveRect' = << >>
                 /\ ~isDrawing']_vars

\* C12 happens: a drag of 8 by 20 pixels at scale 1.0 was ended and refused
C12_Witness ==
    /\ scale = defaultScale
    /\ startX = 0 /\ startY = 0
    /\ alerts["Annotation too small. Please draw a larger area."] = 1
    /\ ~isDrawing
    /\ ~modal.open

\* C13: every annotation submitted to the backend has x, y, width and
\* height >= 0, and its width and height are at least 10 pixels in device
\* space at the scale in effect when it was created (extents times scale;
\* the scale is in quarters).
C13_SubmittedGeometry ==
    \A i \in 1..Len(posts) :
        /\ posts[i].x >= 0 /\ posts[i].y >= 0
        /\ posts[i].width >= 0 /\ posts[i].height >= 0
        /\ posts[i].width * posts[i].scale >= minAnnotationSize * 4
        /\ posts[i].height * posts[i].scale >= minAnnotationSize * 4

\* a pointer-up ends a drag
DragEnds == isDrawing /\ \E pt \in Points : MouseUp(pt)

\* C14 as stated: a pointer-up while Drawing makes the drag state Idle at
\* once, in every branch, and the drag state is Idle whenever the prompt is
\* open or a save request is pending.
C14_IdleWhilePending ==
    /\ [][DragEnds => ~isDrawing']_vars
    /\ []((modal.open \/ posts # << >>) => ~isDrawing)

\* C14 amended: a pointer-up while Drawing makes the drag state Idle at
\* once, in every branch; it stays Idle until the next pointer-down (no
\* continuation of the handler starts a drag), and it is Idle whenever the
\* prompt is open. While a save request is pending the user can start a new
\* drag.
C14_IdleUntilNextPointerDown ==
    /\ [][DragEnds => ~isDrawing']_vars
    /\ [][(~isDrawing /\ isDrawing') => \E pt \in Points : MouseDown(pt)]_vars
    /\ [](modal.open => ~isDrawing)

\* C14 happens: a drag was ended, its annotation was submitted and the save
\* is pending with the drag state Idle
C14_Witness ==
    /\ posts # << >>
    /\ ~modal.open
    /\ ~isDrawing

\* the ids of the cached annotations of the page on screen
persistedIds == { a.id : a \in { b \in annotations : b.page = pageNum } }

\* the overlay after the step shows the cached annotations of the page and
\* no live rectangle
RedrawnFromPersisted ==
    /\ liveRect' = << >>
    /\ overlay' = drawAnnotations(pageNum)
    /\ (showAnnotations /\ isArray(annotations))
          => /\ overlay'.page = pageNum
             /\ overlay'.scale = scale
             /\ overlay'.ids = persistedIds

\* nothing is sent to the backend and nothing changes in the cache or in the
\* backend's store
NothingSubmitted ==
    /\ posts' = posts
    /\ fetches' = fetches
    /\ backend' = backend
    /\ annotations' = annotations

\* C15: a pointer-leave while Drawing cancels the drag: the drag state is
\* Idle, the overlay is redrawn from the cached annotations only, nothing is
\* submitted and the annotation set is unchanged.
C15_PointerLeaveCancels ==
    [][(MouseLeave /\ isDrawing)
          => /\ ~isDrawing'
             /\ RedrawnFromPersisted
             /\ NothingSubmitted
             /\ modal' = modal]_vars

\* C15 happens: a drag was started and the pointer left the canvas; the
\* stored annotation of the page is on the overlay, no prompt, no alert
C15_Witness ==
    /\ events = 2
    /\ startX # 0
    /\ ~isDrawing
    /\ ~modal.open
    /\ liveRect = << >>
    /\ overlay.ids = persistedIds /\ overlay.ids # {}
    /\ alerts = [m \in Messages |-> 0]

\* C16: an annotation with an empty label is never submitted: a Submit
\* while the chosen label is empty (also while the options have not loaded)
\* leaves the prompt open and posts nothing, and no request in flight and no
\* stored annotation has an empty label.
C16_NoEmptyLabel ==
    /\ [][(ModalSubmit /\ modal.value \in {"", " "})
             => /\ modal'.open
                /\ posts' = posts
                /\ backend' = backend]_vars
    /\ [](/\ \A i \in 1..Len(posts) : posts[i].value \notin {"", " "}
          /\ \A a \in backend : a.value \notin {"", " "})

\* C16 happens: Submit was pressed before the options had loaded; the prompt
\* is still open and nothing was posted
C16_Witness ==
    /\ modal.open
    /\ modal.fetch = "pending"
    /\ modal.value = ""
    /\ alerts["Please select a data element"] = 1
    /\ posts = << >>

\* C17: when the success notification of a save is shown, the refresh has
\* completed: no annotation fetch is pending and the cached set is the full
\* set the backend stores for the document.
C17_NotifiedAfterRefresh ==
    [][(alerts'["Annotation saved successfully."]
            > alerts["Annotation saved successfully."])
          => /\ fetches' = << >>
             /\ annotations' = { a \in backend' : a.document_id = documentId }]_vars

\* a save fails
SaveFails == \E i \in 1..Len(posts) : SaveRejected(i)

\* exactly one error notification is shown in the step
OneErrorNotification ==
    alerts' = alert(alerts,
        "An error occurred while processing the annotation. Please try again.")

\* C18 as stated: when a save fails, exactly one error notification is
\* shown, the live proposal is cleared from the overlay, the cached
\* annotation set is unchanged and the drag state is Idle.
C18_SaveFailureIdle ==
    [][SaveFails
          => /\ OneErrorNotification
             /\ liveRect' = << >>
             /\ annotations' = annotations
             /\ ~isDrawing']_vars

\* C18 amended: when a save fails, exactly one error notification is shown,
\* the live proposal is cleared from the overlay, the cached annotation set
\* and the backend's store are unchanged, and the drag state is left as it
\* was: Idle unless a new drag was started while the save was pending.
C18_SaveFailureHandled ==
    [][SaveFails
          => /\ OneErrorNotification
             /\ liveRect' = << >>
             /\ annotations' = annotations
             /\ backend' = backend
             /\ isDrawing' = isDrawing]_vars

\* C18 happens: a save failed and the error was shown once
C18_Witness ==
    /\ alerts["An error occurred while processing the annotation. Please try again."] = 1
    /\ posts = << >>
    /\ liveRect = << >>
    /\ backend = initialBackend

\* C19: when the user discards at the prompt, no request is made, the
\* cached annotation set is unchanged and the overlay is redrawn from the
\* cached annotations only.
C19_DiscardLeavesNoTrace ==
    [][ModalDiscard
          => /\ NothingSubmitted
             /\ RedrawnFromPersisted
             /\ ~modal'.open]_vars

\* C19 happens: a rectangle was dragged, the prompt came up and was
\* discarded; the overlay shows the stored annotation only
C19_Witness ==
    /\ events = 3
    /\ ~modal.open
    /\ ~isDrawing
    /\ posts = << >>
    /\ liveRect = << >>
    /\ overlay.ids = persistedIds /\ overlay.ids # {}
    /\ alerts = [m \in Messages |-> 0]
    /\ backend = initialBackend

\* an annotation fetch fails: no response, or an error response
FetchFails ==
    \E i \in 1..Len(fetches) : FetchRejected(i) \/ FetchErrorResponse(i)

\* C20: when an annotation fetch fails, the user is notified and the cached
\* annotation set stays as it was before the fetch.
C20_FetchFailureKeepsCache ==
    [][FetchFails
          => /\ alerts' = alert(alerts, "Failed to fetch annotations")
             /\ annotations' = annotations]_vars

(***************************************************************************)
(* C21: in every reachable state the zoom scale lies between minScale      *)
(* (0.5) and maxScale (3.0), whatever zoom-in clicks, zoom-out clicks and   *)
(* document loads have happened.                                           *)
(***************************************************************************)
C21_ScaleWithinLimits == scale \in minScale..maxScale

\* a click at the upper limit was refused: the scale is still 3.0 and no
\* render was requested
C21_Witness ==
    /\ events = 1
    /\ scale = maxScale
    /\ reqs = << >>
    /\ loads = << >>
    /\ resizeTimeout = 0
    /\ showAnnotations
    /\ ~isAnnotationMode

(***************************************************************************)
(* C22: whenever a document is loaded, state.pageNum is one of its pages   *)
(* (1 .. pdfDoc.numPages), whatever previous, next and 'Go' clicks,         *)
(* document loads and annotation refreshes have happened, and every page    *)
(* handed to renderPage is a page of the document it is rendered from.     *)
(***************************************************************************)
C22_PageWithinDocument ==
    /\ pdfDoc # 0 => pageNum \in 1..numPages(pdfDoc)
    /\ \A i \in Active(reqs) : reqs[i].page \in 1..numPages(reqs[i].doc)

(***************************************************************************)
(* C23: visibility idempotence. With the annotation set, the page and the  *)
(* scale fixed, once show-annotations has been switched off and on again    *)
(* and the renders these clicks started have completed, the overlay shows   *)
(* exactly the rectangles and labels it showed before the clicks: those of  *)
(* the document's annotations on the current page, at the current scale.    *)
(***************************************************************************)
\* no render request failed
RendersCompleted ==
    /\ Active(reqs) = {}
    /\ \A i \in 1..Len(reqs) : reqs[i].st \in {"succeeded", "cancelled"}

C23_VisibilityIdempotent ==
    (showAnnotations /\ RendersCompleted) =>
        /\ overlay.page = pageNum
        /\ overlay.scale = scale
        /\ overlay.ids = { a.id : a \in { b \in stored(documentId) :
                                            b.page = pageNum } }
        /\ Cardinality(overlay.rects) = Cardinality(overlay.ids)

\* hidden and shown again, every render completed, and the annotation of the
\* page is on the overlay
C23_Witness ==
    /\ events = 2
    /\ showAnnotations
    /\ Len(reqs) = 2
    /\ RendersCompleted
    /\ overlay.ids # {}

(***************************************************************************)
(* C24: round-trip registration. A redraw at scale s and device pixel      *)
(* ratio d places the rectangle of an annotation with document-space        *)
(* rectangle (x, y, w, h) at the pixel-buffer rectangle (x*s*d, y*s*d,      *)
(* w*s*d, h*s*d): every rectangle on the overlay is the rectangle of a      *)
(* stored annotation multiplied by the scale of the redraw and by the       *)
(* device pixel ratio. Lengths on the overlay are in quarter pixels and     *)
(* the scale is in quarters, so the products below are exact.               *)
(***************************************************************************)
C24_RoundTripRegistration ==
    \A r \in overlay.rects :
        \E a \in backend :
            LET s == overlay.scale
                d == effectiveDpr(devicePixelRatio)
            IN  /\ a.id = r.id
                /\ r.x = a.x * s * d
                /\ r.y = a.y * s * d
                /\ r.width = a.width * s * d
                /\ r.height = a.height * s * d

\* the example: after a render at scale 2.0 on a screen of device pixel
\* ratio 2, the annotation (10, 10, 50, 30) is at (40, 40, 200, 120)
C24_Witness ==
    /\ scale = 8
    /\ devicePixelRatio = 2
    /\ \E i \in 1..Len(reqs) : reqs[i].st = "succeeded"
    /\ \E r \in overlay.rects :
          /\ r.x = 4 * 40 /\ r.y = 4 * 40
          /\ r.width = 4 * 200 /\ r.height = 4 * 120

(***************************************************************************)
(* C25: transform inverse. For every document point p, every scale and     *)
(* device pixel ratio, drawing p on the overlay and capturing a pointer at  *)
(* the place where p is shown gives p again: the drawing mapping (times     *)
(* scale, through the context's transform into the pixel buffer, which the  *)
(* browser lays out over the canvas's style size) followed by the capture   *)
(* mapping (CSS pixels from the edge of the canvas's bounding rectangle,    *)
(* divided by scale) is the identity, on both axes.                         *)
(***************************************************************************)
\* document coordinates the round trip is tried on
DocPoints == {0, 10, 80}

\* the document coordinate captured at the place where v is drawn, along an
\* axis whose pixel buffer is bufLen long and whose style length is styleLen
roundTrip(v, bufLen, styleLen) ==
    LET probe == [id |-> 0, x |-> v, y |-> v, width |-> 0, height |-> 0,
                  value |-> ""]
        drawn == annotationRect(probe, scale, annotationCanvas.transform)
    IN  pointerToDocument(toLayout(drawn.x, bufLen, styleLen), scale)

C25_TransformInverse ==
    annotationCanvas.styleWidth # 0 =>
        \A v \in DocPoints :
            /\ isWhole(roundTrip(v, annotationCanvas.width,
                                 annotationCanvas.styleWidth), v)
            /\ isWhole(roundTrip(v, annotationCanvas.height,
                                 annotationCanvas.styleHeight), v)

(***************************************************************************)
(* C26: resize debouncing. A resize event starts no render and leaves one  *)
(* timer armed, that of the last event; when the timer fires no timer is    *)
(* left, and exactly one renderPage(current page) call is made if a         *)
(* document is loaded and none if not. A burst of events therefore ends in  *)
(* one render, after the last event's timer.                                *)
(***************************************************************************)
C26_ResizeDebounced ==
    [][ /\ WindowResize =>
              /\ resizeTimeout' = 1
              /\ reqs' = reqs
              /\ pageIsRendering' = pageIsRendering
        /\ ResizeTimerFires =>
              /\ resizeTimeout' = 0
              /\ IF pdfDoc # 0
                 THEN /\ Len(reqs') = Len(reqs) + 1
                      /\ reqs'[Len(reqs')].page = pageNum
                      /\ reqs'[Len(reqs')].st = "getPage"
                 ELSE reqs' = reqs ]_vars

\* a burst of two resize events with a document on screen has ended in one
\* render request
C26_Witness ==
    /\ pdfDoc # 0
    /\ events = 2
    /\ resizeTimeout = 0
    /\ Len(reqs) = 1

(***************************************************************************)
(* C27: if loading a document fails, documentId, pdfDoc, pageNum, scale    *)
(* and the annotation set are what they were before the load was           *)
(* requested. With document 1 on screen (ViewInit) and the load request    *)
(* the user's only action, a failed load must leave document 1, its last   *)
(* page, the chosen zoom level and its annotations in place.               *)
(***************************************************************************)
C27_FailedLoadChangesNothing ==
    ( /\ events = 1
      /\ loads = << >>
      /\ alerts["Failed to load PDF"] = 1 )
        => /\ documentId = 1
           /\ pdfDoc = 1
           /\ pageNum = numPages(1)
           /\ scale \in ViewScales
           /\ annotations = stored(1)

(***************************************************************************)
(* C28: queueRenderPage(n) while Idle (pageIsRendering false) starts a     *)
(* render of page n at once; while a render is in flight it only           *)
(* overwrites the pending page with n and neither starts nor cancels a     *)
(* raster task.                                                            *)
(***************************************************************************)
\* a handler step that reaches its queueRenderPage call; the page it queues
\* is the page it leaves in state.pageNum
QueueRenderPageCalled ==
    \/ PrevPage /\ pageNum > 1
    \/ NextPage /\ pdfDoc # 0 /\ pageNum < numPages(pdfDoc)
    \/ ZoomIn /\ scale < maxScale
    \/ ZoomOut /\ scale > minScale
    \/ \E ann \in annotations : GoToAnnotation(ann)

\* a render of page n is started in the step
RenderStarted(n) ==
    /\ Len(reqs') = Len(reqs) + 1
    /\ reqs'[Len(reqs')].page = n
    /\ reqs'[Len(reqs')].st = "getPage"

\* the step only records page n as pending
OnlyPending(n) ==
    /\ pageNumIsPending' = n
    /\ Len(reqs') = Len(reqs)
    /\ \A i \in 1..Len(reqs) : reqs'[i].st = reqs[i].st

C28_QueueRenderPage ==
    [][QueueRenderPageCalled
          => /\ ~pageIsRendering => RenderStarted(pageNum')
             /\ Active(reqs) # {} => OnlyPending(pageNum')]_vars

(***************************************************************************)
(* C29: when the raster task of page p succeeds and a page q is pending, a *)
(* render of q is started at once and the pending page is cleared;         *)
(* otherwise the scheduler becomes Idle: pageIsRendering is false and no   *)
(* render is in flight. In both cases the overlay is then redrawn for      *)
(* page p.                                                                 *)
(***************************************************************************)
\* the overlay after the step shows the cached annotations of page p
OverlayRedrawnFor(p) ==
    /\ overlay'.page = p
    /\ overlay'.ids = IF showAnnotations
                      THEN { a.id : a \in { b \in annotations : b.page = p } }
                      ELSE {}

C29_RenderCompletion ==
    [][\A i \in 1..Len(reqs) :
          RenderSucceeded(i)
              => /\ IF pageNumIsPending # 0
                    THEN /\ RenderStarted(pageNumIsPending)
                         /\ pageNumIsPending' = 0
                    ELSE /\ ~pageIsRendering'
                         /\ Active(reqs') = {}
                 /\ OverlayRedrawnFor(reqs[i].page)]_vars

(***************************************************************************)
(* C30: drawAnnotations(p) leaves the overlay empty when showAnnotations   *)
(* is off; otherwise it leaves on it exactly one rectangle and label for   *)
(* each cached annotation whose page is p and nothing for annotations of   *)
(* other pages. It changes neither the annotation set nor the viewer       *)
(* state (document, page, scale, the two toggles). Stated of the call at   *)
(* the end of a successful render of page p.                               *)
(***************************************************************************)
\* the cached annotations of page p
OnPage(p) == { a \in annotations : a.page = p }

C30_DrawAnnotations ==
    [][\A i \in 1..Len(reqs) :
          RenderSucceeded(i)
              => /\ ~showAnnotations => overlay'.rects = {}
                 /\ showAnnotations =>
                       /\ Cardinality(overlay'.rects) =
                             Cardinality(OnPage(reqs[i].page))
                       /\ \A a \in OnPage(reqs[i].page) :
                             \E r \in overlay'.rects :
                                 r.id = a.id /\ r.label = a.value
                       /\ \A r \in overlay'.rects :
                             \E a \in OnPage(reqs[i].page) : r.id = a.id
                 /\ UNCHANGED << annotations, pdfDoc, documentId, pageNum,
                                 scale, showAnnotations, isAnnotationMode >>]_vars

\* page 1 was rendered while the cache holds an annotation of page 2 only:
\* nothing is on the overlay
C30_Witness ==
    /\ showAnnotations
    /\ annotations # {}
    /\ \A a \in annotations : a.page = 2
    /\ overlay.page = 1
    /\ overlay.rects = {}
    /\ \E i \in 1..Len(reqs) : reqs[i].st = "succeeded"


\* a pointer handler of the overlay canvas runs
PointerHandlerStep ==
    \/ \E pt \in Points : MouseDown(pt)
    \/ \E pt \in Points : MouseMove(pt)
    \/ \E pt \in Points : MouseUp(pt)
    \/ MouseLeave

\* ViewportState as the pointer handlers see it, with the cached annotations
viewportState == << scale, pageNum, pageNumIsPending, annotations >>

\* C31: pointer-down, pointer-move, pointer-up and pointer-leave leave the
\* scale, the page number, the pending page and the cached annotations as
\* they are, with or without a render in flight; pointer-move changes nothing
\* but what is drawn on the overlay
C31_PointerEventsKeepViewport ==
    [][ /\ PointerHandlerStep => UNCHANGED viewportState
        /\ (\E pt \in Points : MouseMove(pt)) =>
               UNCHANGED << schedulerVars, annotations, fetches, alerts,
                            events, controllerVars >> ]_vars

\* C31 happens: a drag was started and the pointer moved while a render was
\* in flight and another page was pending
C31_Witness ==
    /\ isDrawing
    /\ liveRect # << >>
    /\ pageNumIsPending # 0
    /\ Active(reqs) # {}

\* C32: every annotation submitted carries the page that was on the raster
\* surface when its rectangle was drawn (shown: the page of the raster at
\* the pointer-up that ended the drag, kept with the prompt and the request)
C32_SubmittedPageIsDisplayedPage ==
    \A i \in 1..Len(posts) :
        posts[i].shown # 0 => posts[i].page = posts[i].shown

\* C33: the annotation submitted on confirm carries the id of the document
\* that is loaded and displayed, also while another document is being loaded
\* or after a load has failed
C33_SubmittedDocumentIsLoadedDocument ==
    [][ (ModalSubmit /\ Len(posts') > Len(posts)) =>
            posts'[Len(posts')].document_id = pdfDoc ]_vars

\* every document load has completed, none failed, and a document is
\* displayed
LoadsSettled ==
    /\ loads = << >>
    /\ alerts["Failed to load PDF"] = 0
    /\ pdfDoc # 0

\* every annotation fetch has completed and none failed
FetchesSettled ==
    /\ fetches = << >>
    /\ alerts["Failed to fetch annotations"] = 0

\* C34: when the document loads requested and their annotation fetches have
\* completed, in whatever order, the displayed document, documentId and the
\* cached annotations belong to the same document, the one requested last
\* (documentId is assigned at every request). No annotation fetch assigns
\* pdfDoc or documentId, so the first conjunct speaks of the final state as
\* soon as the loads have completed.
C34_LoadsEndConsistent ==
    /\ LoadsSettled => pdfDoc = documentId
    /\ (LoadsSettled /\ FetchesSettled) => annotations = stored(documentId)

\* C35: a successful document load sets the page to 1 and the scale to 1.0
\* and starts a render of page 1 of the new document; and no page recorded
\* before the load is rendered against the new document. The page buttons
\* keep the page within the document displayed at the click, so a request
\* for a page the request's document does not have is a page recorded for
\* the previous document.
C35_LoadResetsView ==
    /\ [][ \A i \in 1..Len(loads) :
             LoadResolved(i) =>
                 /\ pageNum' = 1
                 /\ scale' = defaultScale
                 /\ reqs'[Len(reqs')] =
                        [newRequest(1) EXCEPT !.doc = pdfDoc'] ]_vars
    /\ [](\A i \in Active(reqs) : reqs[i].page \in 1..numPages(reqs[i].doc))

\* C36: whenever the raster surface shows a page and the overlay has been
\* redrawn over it, the overlay was drawn for that page and at the scale the
\* raster was rendered at
C36_OverlayMatchesRaster ==
    (raster.page # 0 /\ overlay.page # 0) =>
        /\ overlay.page = raster.page
        /\ overlay.scale = raster.scale

\* the smaller of two numbers
min(a, b) == IF a < b THEN a ELSE b

\* C37: the rectangle a pointer-up finalizes has the smaller coordinates of
\* the two corners as x and y and the absolute differences as width and
\* height, which are never negative; it is therefore the same whichever of
\* the two corners the drag started at. This is the rectangle the prompt is
\* opened with.
C37_NormalizationDirectionIndependent ==
    [][ \A pt \in Points :
          (MouseUp(pt) /\ isDrawing) =>
              LET endX == toDocument(pt[1])
                  endY == toDocument(pt[2])
                  r    == normalize(endX, endY)
              IN  /\ r.x = min(startX, endX)
                  /\ r.y = min(startY, endY)
                  /\ r.width = abs(endX - startX)
                  /\ r.height = abs(endY - startY)
                  /\ r.width >= 0
                  /\ r.height >= 0
                  /\ modal'.open =>
                         /\ modal'.x = r.x
                         /\ modal'.y = r.y
                         /\ modal'.width = r.width
                         /\ modal'.height = r.height ]_vars

\* C37 happens: a drag from the lower right corner to the upper left one was
\* finalized, and the prompt holds the rectangle a drag from the upper left
\* corner to the lower right one gives
C37_Witness ==
    /\ modal.open
    /\ modal.width > 0
    /\ modal.height > 0
    /\ startX = modal.x + modal.width
    /\ startY = modal.y + modal.height

\* everything the program holds: all variables but the count of events
programState ==
    << schedulerVars, annotations, fetches, alerts, overlay, liveRect,
       controllerVars >>

\* C38: a pointer-down while annotation mode is off starts no drag, and a
\* pointer-move, pointer-up or pointer-leave while no drag is in progress
\* changes nothing: no prompt is opened and no request is sent. Neither
\* changes any other part of the program's state.
C38_PointerEventsOutsideStateAreNoOps ==
    [][ /\ \A pt \in Points :
              (MouseDown(pt) /\ ~isAnnotationMode) => UNCHANGED programState
        /\ \A pt \in Points :
              (MouseMove(pt) /\ ~isDrawing) => UNCHANGED programState
        /\ \A pt \in Points :
              (MouseUp(pt) /\ ~isDrawing) => UNCHANGED programState
        /\ (MouseLeave /\ ~isDrawing) => UNCHANGED programState ]_vars

\* C38 happens: annotation mode was switched off and a pointer event came
\* that found no drag to act on or, being a pointer-down, started none
C38_Witness ==
    /\ ~isAnnotationMode
    /\ events = 2
    /\ ~isDrawing
    /\ startX = 0
    /\ startY = 0
    /\ ~modal.open
    /\ posts = << >>
    /\ liveRect = << >>

\* C39: between handlers, a pending page exists only while the rendering
\* flag is set, and the task handle is set only while the rendering flag is
\* set
C39_PendingAndTaskImplyRendering ==
    /\ pageNumIsPending # 0 => pageIsRendering
    /\ currentRenderTask # 0 => pageIsRendering

====
